---- MODULE Spec2Model ----
(***************************************************************************)
(* A model of engine::Engine (Engine.h / Engine.cpp): the listener         *)
(* registry, the double-buffered message queue, the state stack and the    *)
(* per-frame tick(); of engine::C_Timer (Timer.h), the clock the driver    *)
(* owns; and of the subsystem lists of one engine::EngineState.            *)
(*                                                                         *)
(* A call of the public interface is one action, taken when the caller     *)
(* has control (pc = "idle"); it leaves pc = "ret" with the call and its   *)
(* return value in `call`, and Return hands control back.  triggerMessage  *)
(* and tick invoke listener callbacks, which may call queueMessage         *)
(* themselves, so they advance one callback at a time (pc = "trigger",     *)
(* pc = "dispatch").                                                       *)
(***************************************************************************)
EXTENDS Integers, Sequences, FiniteSets, TLC

\* ------------------------------------------------------------------ bounds
MaxQueue == 3
MaxEnter == 2
MaxTime == 3
MaxList == 3

\* ------------------------------------------------------------ the universe
Listeners == {"L1", "L2"}
MsgTypes  == {"T1", "T2"}
Msgs      == {"m1", "m2"}
States    == {"A", "B"}
Systems   == {"s1", "s2"}
NULL      == "null"

\* Message::getType
getType(m) == IF m = "m1" THEN "T1" ELSE "T2"

\* enum Engine::MsgStatus
NOTCONSUMED == "NOTCONSUMED"
CONSUMED    == "CONSUMED"
NOLISTENER  == "NOLISTENER"
SUCCESS     == "SUCCESS"

VARIABLES
    pc,                      \* who runs: "idle", "ret", "trigger", "dispatch", "fault"
    call,                    \* the call that has just returned (pc = "ret")
    listener_map_,           \* MessageType -> ListenerList (a function on the keys present)
    wildcard_listener_list_, \* ListenerList
    message_queue_,          \* [BOOLEAN -> MessageQueue]
    current_msg_queue_,      \* bool: the buffer that accepts new messages
    state_,                  \* std::list<EngineStatePtr>, front first
    queued_state_,           \* EngineStatePtr or NULL
    current_state,           \* the function-local static of tick()
    current_state_init,      \* whether that static has been initialised
    queue_to_process,        \* local of dispatchMessages
    msg, status, itr, witr,  \* locals of triggerMessage: the message, the result so
                             \* far, the listeners still to call (typed, wildcard)
    caller,                  \* who called triggerMessage: "api" or "dispatch"
    enterCount, exitCount,   \* calls of enter() / exit() seen by each state so far
    log,                     \* callbacks invoked by the running call, in order
    snapshot,                \* the accepting buffer at the flip of the running pass
    cleared,                 \* what the clear() after the flip discarded
    passTrace,               \* the pass's triggerMessage calls: message and result, in order
    passEnq,                 \* messages listeners enqueued during the running call
    anyTrue,                 \* whether a listener of the running trigger returned true
    pre                      \* state stack, pending slot, static and lifecycle counts at
                             \* the running tick's start

VARIABLES
    now,                     \* what Clock::now() returns, in whole seconds
    timer_,                  \* the driver's C_Timer
    paused_,                 \* Engine::paused_
    current_timestamp_,      \* Engine::current_timestamp_
    deltaT_,                 \* Engine::deltaT_
    started,                 \* whether start() has been called
    startedAt,               \* the clock's time at the last start()
    pausedFor,               \* time spent paused since the last start()
    update_list_,            \* EngineState::update_list_ of one state object
    render_list_             \* EngineState::render_list_ of the same object

busVars   == <<listener_map_, wildcard_listener_list_, message_queue_, current_msg_queue_>>
stackVars == <<state_, queued_state_, enterCount, exitCount>>
staticVars == <<current_state, current_state_init>>
trigVars  == <<msg, status, itr, witr, caller, anyTrue>>
passVars  == <<queue_to_process, snapshot, cleared, passTrace, pre>>
clockVars == <<now, timer_, paused_, current_timestamp_, deltaT_, started, startedAt,
               pausedFor>>
sysVars   == <<update_list_, render_list_>>
vars == <<pc, call, busVars, stackVars, staticVars, trigVars, passVars, log, passEnq,
          clockVars, sysVars>>

\* ------------------------------------------------------------------ helpers
Contains(list, x) == \E i \in 1..Len(list) : list[i] = x

\* std::list::remove(value): every occurrence goes, the rest keep their order
Remove(list, x) == SelectSeq(list, LAMBDA y : y # x)

RECURSIVE Count(_, _)
Count(list, x) ==
    IF list = <<>> THEN 0
    ELSE (IF Head(list) = x THEN 1 ELSE 0) + Count(Tail(list), x)

NoDup(list) == \A i, j \in 1..Len(list) : list[i] = list[j] => i = j

Str(b) == IF b THEN "true" ELSE "false"

Call(op, a, b, r) == [op |-> op, a |-> a, b |-> b, ret |-> r]
NoCall == Call("-", "-", "-", "-")
NoPre  == [stack |-> <<>>, queued |-> NULL, init |-> TRUE,
           enter |-> [s \in States |-> 0], exit |-> [s \in States |-> 0]]

Event(ev, who, m) == [ev |-> ev, who |-> who, m |-> m]

\* a MessageListenerMap with no entry
EmptyMap == [t \in {} |-> <<>>]

\* messages held in the two buffers together
Queued == Len(message_queue_[TRUE]) + Len(message_queue_[FALSE])

\* ---------------------------------------------------------------- the start
\* Engine() : paused_(false), current_msg_queue_(false) {}, all containers empty
\* ------------------------------------------------------------------ C_Timer
\* Times are whole seconds, so the division by COUNTSPERSECOND of getTime and
\* getDeltaTime is exact.  A value no constructor has set is Indeterminate; a
\* read of it may yield any of IndeterminateValues.
Indeterminate == -1
IndeterminateValues == {0, 1}

\* C_Timer::C_Timer, line 25: paused_ and pause_total_ are set, the time points
\* are default-constructed, delta_time_ is left unset
C_Timer ==
    [paused_ |-> FALSE, base_time_ |-> 0, pause_time_ |-> 0, prev_time_ |-> 0,
     current_time_ |-> 0, pause_total_ |-> 0, delta_time_ |-> Indeterminate]

\* C_Timer::getTime, lines 29-46: the value returned
getTimeOf(t, clock) ==
    IF t.paused_ THEN t.pause_time_ - t.base_time_
    ELSE clock - t.base_time_ - t.pause_total_

\* C_Timer::getTime, line 43: the timer after the call
getTimeOn(t, clock) ==
    IF t.paused_ THEN t ELSE [t EXCEPT !.current_time_ = clock]

\* C_Timer::getDeltaTime, lines 49-51: the values the read can yield
getDeltaTimeOf(t) ==
    IF t.delta_time_ = Indeterminate THEN IndeterminateValues ELSE {t.delta_time_}

\* C_Timer::start, lines 54-60
startOn(t, clock) ==
    [t EXCEPT !.current_time_ = clock, !.base_time_ = clock, !.prev_time_ = clock,
              !.pause_total_ = 0, !.paused_ = FALSE]

\* C_Timer::pause, lines 63-69
pauseOn(t, clock) ==
    IF t.paused_ THEN t
    ELSE [t EXCEPT !.pause_time_ = clock, !.paused_ = TRUE]

\* C_Timer::unpause, lines 71-85
unpauseOn(t, clock) ==
    IF ~t.paused_ THEN t
    ELSE [t EXCEPT !.current_time_ = clock,
                   !.pause_total_ = @ + (clock - t.pause_time_),
                   !.prev_time_ = clock,
                   !.paused_ = FALSE]

\* C_Timer::tick, lines 88-100
tickOn(t, clock) ==
    IF t.paused_ THEN t
    ELSE [t EXCEPT !.current_time_ = clock,
                   !.delta_time_ = clock - t.prev_time_,
                   !.prev_time_ = clock]

Init ==
    /\ pc = "idle"
    /\ call = NoCall
    /\ listener_map_ = EmptyMap
    /\ wildcard_listener_list_ = <<>>
    /\ message_queue_ = [b \in BOOLEAN |-> <<>>]
    /\ current_msg_queue_ = FALSE
    /\ state_ = <<>>
    /\ queued_state_ = NULL
    /\ current_state = NULL
    /\ current_state_init = FALSE
    /\ queue_to_process = FALSE
    /\ msg = NULL /\ status = NOTCONSUMED /\ itr = <<>> /\ witr = <<>>
    /\ caller = "-"
    /\ anyTrue = FALSE
    /\ enterCount = [s \in States |-> 0]
    /\ exitCount = [s \in States |-> 0]
    /\ log = <<>>
    /\ snapshot = <<>>
    /\ cleared = <<>>
    /\ passTrace = <<>>
    /\ passEnq = <<>>
    /\ pre = NoPre
    /\ now = 0
    /\ timer_ = C_Timer
    /\ paused_ = FALSE
    /\ current_timestamp_ = Indeterminate
    /\ deltaT_ = Indeterminate
    /\ started = FALSE
    /\ startedAt = 0
    /\ pausedFor = 0
    /\ update_list_ = <<>>
    /\ render_list_ = <<>>

\* control returns to the caller with the call's result
Returns(op, a, b, r) == pc' = "ret" /\ call' = Call(op, a, b, r)

\* ------------------------------------------------------- listener registry
\* Engine::addListener, lines 278-293: find the type's list, insert an empty one
\* when the type has no entry
WithEntry(map, type) ==
    IF type \in DOMAIN map THEN map
    ELSE [t \in DOMAIN map \cup {type} |-> IF t = type THEN <<>> ELSE map[t]]

\* a scan that stops after the first entry
FirstIs(lList, l) == lList # <<>> /\ Head(lList) = l

\* Engine::addListener, lines 297-301: the duplicate scan of the type's list
IsRegistered(lList, l) == Contains(lList, l)

\* Engine::addListener, lines 276-306: the map it leaves and the bool it returns
addListenerMap(map, l, type) ==
    LET m1 == WithEntry(map, type) IN
    IF IsRegistered(m1[type], l) THEN m1
    ELSE [m1 EXCEPT ![type] = Append(@, l)]

addListenerResult(map, l, type) == ~IsRegistered(WithEntry(map, type)[type], l)

addListener(l, type) ==
    /\ pc = "idle"
    /\ listener_map_' = addListenerMap(listener_map_, l, type)
    /\ Returns("addListener", l, type, Str(addListenerResult(listener_map_, l, type)))
    /\ UNCHANGED <<wildcard_listener_list_, message_queue_, current_msg_queue_,
                   stackVars, staticVars, trigVars, passVars, log, passEnq>>
    /\ UNCHANGED <<clockVars, sysVars>>

\* Engine::addWildCardListener, lines 317-329
addWildCardList(wList, l) ==
    IF Contains(wList, l) THEN wList ELSE Append(wList, l)

addWildCardListener(l) ==
    /\ pc = "idle"
    /\ wildcard_listener_list_' = addWildCardList(wildcard_listener_list_, l)
    /\ Returns("addWildCardListener", l, "-", Str(~Contains(wildcard_listener_list_, l)))
    /\ UNCHANGED <<listener_map_, message_queue_, current_msg_queue_,
                   stackVars, staticVars, trigVars, passVars, log, passEnq>>
    /\ UNCHANGED <<clockVars, sysVars>>

\* Engine::deleteWildCardListener, lines 230-232
deleteWildCardListener(l) ==
    /\ pc = "idle"
    /\ wildcard_listener_list_' = Remove(wildcard_listener_list_, l)
    /\ Returns("deleteWildCardListener", l, "-", "-")
    /\ UNCHANGED <<listener_map_, message_queue_, current_msg_queue_,
                   stackVars, staticVars, trigVars, passVars, log, passEnq>>
    /\ UNCHANGED <<clockVars, sysVars>>

\* the type's entry erased from the map once its list is empty
deleteListenerErasing(map, l, type) ==
    IF type \in DOMAIN map
    THEN IF Remove(map[type], l) = <<>>
         THEN [t \in DOMAIN map \ {type} |-> map[t]]
         ELSE [map EXCEPT ![type] = Remove(@, l)]
    ELSE map

\* Engine::deleteListener, lines 235-242: the type's entry stays, possibly empty
deleteListenerMap(map, l, type) ==
    IF type \in DOMAIN map THEN [map EXCEPT ![type] = Remove(@, l)] ELSE map

deleteListener(l, type) ==
    /\ pc = "idle"
    /\ listener_map_' = deleteListenerMap(listener_map_, l, type)
    /\ Returns("deleteListener", l, type, Str(type \in DOMAIN listener_map_))
    /\ UNCHANGED <<wildcard_listener_list_, message_queue_, current_msg_queue_,
                   stackVars, staticVars, trigVars, passVars, log, passEnq>>
    /\ UNCHANGED <<clockVars, sysVars>>

\* ------------------------------------------------------------ queueMessage
\* the check of line 380 left out: an empty list counts as a listener
HasEntry(map, m) == getType(m) \in DOMAIN map

\* Engine::queueMessage, lines 376-381: a listener list exists for the type and
\* is not empty
HasListener(map, m) ==
    /\ getType(m) \in DOMAIN map
    /\ map[getType(m)] # <<>>

\* the message goes into the buffer that is not accepting
DrainingQueue(cur) == ~cur

\* Engine::queueMessage, line 383: the buffer that takes the message
AcceptingQueue(cur) == cur

\* Engine::queueMessage, lines 374-385: the buffers it leaves
queueMessageQueues(map, queues, cur, m) ==
    IF HasListener(map, m)
    THEN [queues EXCEPT ![AcceptingQueue(cur)] = Append(@, m)]
    ELSE queues

\* Engine::queueMessage, lines 374-385: the status it returns
queueMessageResult(map, m) == IF HasListener(map, m) THEN SUCCESS ELSE NOLISTENER

queueMessage(m) ==
    /\ pc = "idle"
    /\ Queued < MaxQueue
    /\ message_queue_' = queueMessageQueues(listener_map_, message_queue_, current_msg_queue_, m)
    /\ Returns("queueMessage", m, "-", queueMessageResult(listener_map_, m))
    /\ UNCHANGED <<listener_map_, wildcard_listener_list_, current_msg_queue_,
                   stackVars, staticVars, trigVars, passVars, log, passEnq>>
    /\ UNCHANGED <<clockVars, sysVars>>

\* ---------------------------------------------------------- triggerMessage
\* Engine::triggerMessage, lines 344-348: the status before any listener ran
InitialStatus(map, m) ==
    IF getType(m) \in DOMAIN map THEN NOTCONSUMED ELSE NOLISTENER

RECURSIVE Reverse(_)
Reverse(list) == IF list = <<>> THEN <<>> ELSE Append(Reverse(Tail(list)), Head(list))

\* the type's list walked from its back
TypedListenersReversed(map, m) ==
    IF getType(m) \in DOMAIN map THEN Reverse(map[getType(m)]) ELSE <<>>

\* Engine::triggerMessage, lines 346-350: the type's listeners, none without an entry
TypedListeners(map, m) ==
    IF getType(m) \in DOMAIN map THEN map[getType(m)] ELSE <<>>

\* Engine::triggerMessage, lines 351-352: a type-specific listener has returned
AfterTyped(st, consumed) == IF consumed THEN CONSUMED ELSE st

\* the wildcard listener's result is dropped
WildcardIgnored(st, consumed) == st

\* Engine::triggerMessage, lines 357-358: a wildcard listener has returned
AfterWildcard(st, consumed) == IF consumed THEN CONSUMED ELSE st

\* Engine::triggerMessage, lines 343-348: entry, up to the first listener call
BeginTrigger(m, who) ==
    /\ msg' = m
    /\ status' = InitialStatus(listener_map_, m)
    /\ itr' = TypedListeners(listener_map_, m)
    /\ witr' = wildcard_listener_list_
    /\ caller' = who
    /\ anyTrue' = FALSE
    /\ pc' = "trigger"

triggerMessage(m) ==
    /\ pc = "idle"
    /\ BeginTrigger(m, "api")
    /\ UNCHANGED <<call, busVars, stackVars, staticVars, passVars, log, passEnq>>
    /\ UNCHANGED <<clockVars, sysVars>>

\* MessageListener::onMessage, called at lines 351 and 357: the next listener of
\* the running triggerMessage runs.  What it does is its own choice: it returns
\* consumed or not, and it may call queueMessage(send) before returning.
onMessage(consumed, send) ==
    /\ pc = "trigger"
    /\ itr # <<>> \/ witr # <<>>
    /\ send # NULL => Queued + (IF caller = "dispatch" THEN 1 ELSE 0) < MaxQueue
    /\ LET typed == itr # <<>>
           l == IF typed THEN Head(itr) ELSE Head(witr)
       IN /\ itr' = IF typed THEN Tail(itr) ELSE itr
          /\ witr' = IF typed THEN witr ELSE Tail(witr)
          /\ status' = IF typed THEN AfterTyped(status, consumed)
                       ELSE AfterWildcard(status, consumed)
          /\ log' = Append(log, Event("onMessage", l, msg))
    /\ anyTrue' = (anyTrue \/ consumed)
    /\ IF send = NULL
       THEN UNCHANGED <<message_queue_, passEnq>>
       ELSE /\ message_queue_' = queueMessageQueues(listener_map_, message_queue_,
                                                    current_msg_queue_, send)
            /\ passEnq' = IF queueMessageResult(listener_map_, send) = SUCCESS
                          THEN Append(passEnq, send) ELSE passEnq
    /\ UNCHANGED <<pc, call, listener_map_, wildcard_listener_list_, current_msg_queue_,
                   stackVars, staticVars, msg, caller, passVars>>
    /\ UNCHANGED <<clockVars, sysVars>>

\* every message that was not consumed goes back, NOLISTENER included
RequeueUnlessConsumed(st) == st # CONSUMED

\* the test of line 407 inverted
RequeueConsumed(st) == st = CONSUMED

\* Engine::dispatchMessages, line 407: the result that puts the message back
NeedsRequeue(st) == st = NOTCONSUMED

\* Engine::triggerMessage, line 360: every listener has run and the status goes
\* back, to the caller of the public interface or to dispatchMessages, lines
\* 407-408, which puts an unconsumed message into the accepting buffer
triggerReturn ==
    /\ pc = "trigger"
    /\ itr = <<>> /\ witr = <<>>
    /\ IF caller = "api"
       THEN /\ Returns("triggerMessage", msg, "-", status)
            /\ UNCHANGED <<message_queue_, passTrace>>
       ELSE /\ pc' = "dispatch"
            /\ message_queue_' =
                 IF NeedsRequeue(status)
                 THEN [message_queue_ EXCEPT ![current_msg_queue_] = Append(@, msg)]
                 ELSE message_queue_
            /\ passTrace' = Append(passTrace, [m |-> msg, st |-> status])
            /\ UNCHANGED call
    /\ UNCHANGED <<listener_map_, wildcard_listener_list_, current_msg_queue_,
                   stackVars, staticVars, trigVars, queue_to_process, snapshot,
                   cleared, pre, log, passEnq>>
    /\ UNCHANGED <<clockVars, sysVars>>

\* -------------------------------------------------------- dispatchMessages
\* the flip of line 400 left out
NotFlipped(cur) == cur

\* Engine::dispatchMessages, line 400: the buffer that accepts from now on
Flipped(cur) == ~cur

\* Engine::tick, lines 422-434, into Engine::dispatchMessages, lines 399-401:
\* the timer ticks and is read, the buffers are flipped and the newly accepting
\* one is cleared
tick ==
    /\ pc = "idle"
    /\ queue_to_process' = current_msg_queue_
    /\ current_msg_queue_' = Flipped(current_msg_queue_)
    /\ message_queue_' = [message_queue_ EXCEPT ![Flipped(current_msg_queue_)] = <<>>]
    /\ snapshot' = message_queue_[current_msg_queue_]
    /\ cleared' = message_queue_[Flipped(current_msg_queue_)]
    /\ passTrace' = <<>>
    /\ pre' = [stack |-> state_, queued |-> queued_state_, init |-> current_state_init,
               enter |-> enterCount, exit |-> exitCount]
    /\ pc' = "dispatch"
    /\ LET t == tickOn(timer_, now) IN
          /\ timer_' = getTimeOn(t, now)
          /\ current_timestamp_' = getTimeOf(t, now)
          /\ deltaT_' \in getDeltaTimeOf(t)
    /\ UNCHANGED <<call, listener_map_, wildcard_listener_list_, stackVars, staticVars,
                   trigVars, log, passEnq>>
    /\ UNCHANGED <<now, paused_, started, startedAt, pausedFor, sysVars>>

\* Engine::dispatchMessages, lines 404-407: the front message leaves the buffer
\* being drained and goes to triggerMessage
dispatchLoop ==
    /\ pc = "dispatch"
    /\ message_queue_[queue_to_process] # <<>>
    /\ message_queue_' = [message_queue_ EXCEPT ![queue_to_process] = Tail(@)]
    /\ BeginTrigger(Head(message_queue_[queue_to_process]), "dispatch")
    /\ UNCHANGED <<call, listener_map_, wildcard_listener_list_, current_msg_queue_,
                   stackVars, staticVars, passVars, log, passEnq>>
    /\ UNCHANGED <<clockVars, sysVars>>

\* ------------------------------------------------------------- state stack
\* the stack with the lifecycle calls made so far
Lifecycle == [stack |-> state_, enter |-> enterCount, exit |-> exitCount, log |-> log]

SetLifecycle(st) ==
    /\ state_' = st.stack
    /\ enterCount' = st.enter
    /\ exitCount' = st.exit
    /\ log' = st.log

\* EngineState::exit and EngineState::enter, lines 88-89, as the driver sees them
Exit(st, s) ==
    [st EXCEPT !.exit[s] = @ + 1, !.log = Append(@, Event("exit", s, "-"))]

Enter(st, s) ==
    [st EXCEPT !.enter[s] = @ + 1, !.log = Append(@, Event("enter", s, "-"))]

\* Engine::getCurrentState, lines 193-198
getCurrentStateOf(stack) == IF stack # <<>> THEN Head(stack) ELSE NULL

getCurrentState == getCurrentStateOf(state_)

\* pushState with enter() on the new state before exit() on the old front
pushStateEnterFirst(st, s) ==
    LET a == Enter(st, s)
        b == IF st.stack # <<>> THEN Exit(a, Head(st.stack)) ELSE a
    IN [b EXCEPT !.stack = <<s>> \o @]

\* Engine::pushState, lines 200-206
pushStateOn(st, s) ==
    LET a == IF st.stack # <<>> THEN Exit(st, Head(st.stack)) ELSE st
        b == Enter(a, s)
    IN [b EXCEPT !.stack = <<s>> \o @]

\* Engine::popState, lines 208-213
popStateOn(st) ==
    IF st.stack # <<>>
    THEN [Exit(st, Head(st.stack)) EXCEPT !.stack = Tail(@)]
    ELSE st

\* Engine::clean, lines 174-178: exit() on every state of the stack, front first
RECURSIVE ExitAll(_, _)
ExitAll(st, rest) ==
    IF rest = <<>> THEN st ELSE ExitAll(Exit(st, Head(rest)), Tail(rest))

cleanOn(st) == [ExitAll(st, st.stack) EXCEPT !.stack = <<>>]

pushState(s) ==
    /\ pc = "idle"
    /\ enterCount[s] < MaxEnter
    /\ SetLifecycle(pushStateOn(Lifecycle, s))
    /\ Returns("pushState", s, "-", "-")
    /\ UNCHANGED <<busVars, queued_state_, staticVars, trigVars, passVars, passEnq>>
    /\ UNCHANGED <<clockVars, sysVars>>

popState ==
    /\ pc = "idle"
    /\ SetLifecycle(popStateOn(Lifecycle))
    /\ Returns("popState", "-", "-", "-")
    /\ UNCHANGED <<busVars, queued_state_, staticVars, trigVars, passVars, passEnq>>
    /\ UNCHANGED <<clockVars, sysVars>>

\* Engine::queueStateChange, lines 215-217
queueStateChange(s) ==
    /\ pc = "idle"
    /\ enterCount[s] < MaxEnter
    /\ queued_state_' = s
    /\ Returns("queueStateChange", s, "-", "-")
    /\ UNCHANGED <<busVars, state_, enterCount, exitCount, staticVars, trigVars,
                   passVars, log, passEnq>>
    /\ UNCHANGED <<clockVars, sysVars>>

\* Engine::clean, lines 173-182
clean ==
    /\ pc = "idle"
    /\ SetLifecycle(cleanOn(Lifecycle))
    /\ queued_state_' = NULL
    /\ listener_map_' = EmptyMap
    /\ wildcard_listener_list_' = <<>>
    /\ Returns("clean", "-", "-", "-")
    /\ UNCHANGED <<message_queue_, current_msg_queue_, staticVars, trigVars,
                   passVars, passEnq>>
    /\ UNCHANGED <<clockVars, sysVars>>

\* --------------------------------------------------------------------- tick
FAULT == "fault"

\* Engine::tick, line 442: `static EngineStatePtr current_state = state_.front();`
\* The initialiser runs in the first tick() only.  front() of an empty list is
\* undefined: the read may yield an empty pointer, or the call faults.
StaticValue(inited, cur, stack) ==
    IF inited THEN {cur}
    ELSE IF stack # <<>> THEN {Head(stack)}
    ELSE {NULL, FAULT}

\* onRender called before onUpdate
UpdateRenderSwapped(st, cs) ==
    IF cs # NULL
    THEN [st EXCEPT !.log = @ \o <<Event("onRender", cs, "-"), Event("onUpdate", cs, "-")>>]
    ELSE st

\* Engine::tick, lines 445-450: update, then render, of current_state when set
UpdateRender(st, cs) ==
    IF cs # NULL
    THEN [st EXCEPT !.log = @ \o <<Event("onUpdate", cs, "-"), Event("onRender", cs, "-")>>]
    ELSE st

\* the pending transition left unapplied
ApplyQueuedSkipped(st, queued) == st

\* Engine::tick, lines 436-440: the pending transition is applied and cleared
ApplyQueued(st, queued) == IF queued # NULL THEN pushStateOn(st, queued) ELSE st

\* Engine::tick, lines 436-457, once dispatchMessages' loop (line 404) has found
\* the drained buffer empty
tickStates ==
    /\ pc = "dispatch"
    /\ message_queue_[queue_to_process] = <<>>
    /\ queued_state_' = NULL
    /\ LET st1 == ApplyQueued(Lifecycle, queued_state_) IN
       \E cs \in StaticValue(current_state_init, current_state, st1.stack) :
          IF cs = FAULT
          THEN /\ pc' = FAULT
               /\ SetLifecycle(st1)
               /\ UNCHANGED <<call, staticVars>>
          ELSE /\ current_state' = cs
               /\ current_state_init' = TRUE
               /\ SetLifecycle(UpdateRender(st1, cs))
               /\ Returns("tick", "-", "-", "-")
    /\ UNCHANGED <<busVars, trigVars, passVars, passEnq>>
    /\ UNCHANGED <<clockVars, sysVars>>

\* the caller has the result and goes on; what the call left behind for it
\* (its record, the callbacks it made) is gone
Return ==
    /\ pc = "ret"
    /\ pc' = "idle"
    /\ call' = NoCall
    /\ log' = <<>>
    /\ passEnq' = <<>>
    /\ queue_to_process' = FALSE
    /\ snapshot' = <<>> /\ cleared' = <<>> /\ passTrace' = <<>>
    /\ pre' = NoPre
    /\ msg' = NULL /\ status' = NOTCONSUMED /\ itr' = <<>> /\ witr' = <<>>
    /\ caller' = "-"
    /\ anyTrue' = FALSE
    /\ UNCHANGED <<busVars, stackVars, staticVars>>
    /\ UNCHANGED <<clockVars, sysVars>>

\* -------------------------------------------------------------- EngineState
\* std::remove(first, last, value) on a vector of shared pointers: the elements
\* that differ from value are moved to the front in order, a moved-from pointer
\* is empty, and the new logical end comes back (Len + 1 when nothing matched
\* and nothing moved)
RECURSIVE removeFrom(_, _, _, _)
removeFrom(list, result, first, x) ==
    IF first > Len(list) THEN [list |-> list, ret |-> result]
    ELSE IF list[first] # x
         THEN removeFrom([list EXCEPT ![result] = list[first], ![first] = NULL],
                         result + 1, first + 1, x)
         ELSE removeFrom(list, result, first + 1, x)

stdRemove(list, x) ==
    IF \E i \in 1..Len(list) : list[i] = x
    THEN LET f == CHOOSE i \in 1..Len(list) :
                     list[i] = x /\ \A j \in 1..(i - 1) : list[j] # x
         IN removeFrom(list, f, f + 1, x)
    ELSE [list |-> list, ret |-> Len(list) + 1]

\* std::vector::erase(position) for a position inside the vector
eraseAt(list, i) == SubSeq(list, 1, i - 1) \o SubSeq(list, i + 1, Len(list))

DropLast(list) == SubSeq(list, 1, Len(list) - 1)

\* std::vector::erase(position) for a position that is no element of the vector
\* (its end(), or an iterator of another vector): undefined; the builds at hand
\* destroy the last element or fault
eraseOutside(list) == {[ok |-> TRUE, list |-> DropLast(list)], [ok |-> FALSE, list |-> list]}

\* EngineState::deleteSystem, lines 54-55
deleteFromRender(render, x) ==
    IF render = <<>> THEN {[ok |-> TRUE, list |-> render]}
    ELSE LET r == stdRemove(render, x) IN
         IF r.ret > Len(render) THEN eraseOutside(r.list)
         ELSE {[ok |-> TRUE, list |-> eraseAt(r.list, r.ret)]}

\* EngineState::deleteSystem, lines 56-57: std::remove runs on render_list_ once
\* more and its result, an iterator of render_list_, goes to update_list_.erase
deleteFromUpdate(update, render, x) ==
    IF update = <<>> THEN {[ok |-> TRUE, update |-> update, render |-> render]}
    ELSE {[ok |-> o.ok, update |-> o.list, render |-> stdRemove(render, x).list] :
              o \in eraseOutside(update)}

\* EngineState::deleteSystem, lines 53-58
deleteSystem(ptr) ==
    /\ pc = "idle"
    /\ \E r \in deleteFromRender(render_list_, ptr) :
          IF ~r.ok
          THEN /\ pc' = FAULT
               /\ call' = Call("deleteSystem", ptr, "-", "-")
               /\ render_list_' = r.list
               /\ UNCHANGED update_list_
          ELSE \E u \in deleteFromUpdate(update_list_, r.list, ptr) :
                  /\ render_list_' = u.render
                  /\ update_list_' = u.update
                  /\ pc' = IF u.ok THEN "ret" ELSE FAULT
                  /\ call' = Call("deleteSystem", ptr, "-", "-")
    /\ UNCHANGED <<busVars, stackVars, staticVars, trigVars, passVars, log, passEnq,
                   clockVars>>

\* EngineState::pushBackUpdate, lines 60-62
pushBackUpdate(ptr) ==
    /\ pc = "idle"
    /\ Len(update_list_) < MaxList
    /\ update_list_' = Append(update_list_, ptr)
    /\ Returns("pushBackUpdate", ptr, "-", "-")
    /\ UNCHANGED <<busVars, stackVars, staticVars, trigVars, passVars, log, passEnq,
                   clockVars, render_list_>>

\* EngineState::pushBackRender, lines 64-66
pushBackRender(ptr) ==
    /\ pc = "idle"
    /\ Len(render_list_) < MaxList
    /\ render_list_' = Append(render_list_, ptr)
    /\ Returns("pushBackRender", ptr, "-", "-")
    /\ UNCHANGED <<busVars, stackVars, staticVars, trigVars, passVars, log, passEnq,
                   clockVars, update_list_>>

\* the calls `sys->callback(...)` of a range-for over a system list: one call per
\* entry, front to back; an empty pointer in the list faults at its call
RECURSIVE callEach(_, _, _)
callEach(list, callback, done) ==
    IF list = <<>> THEN [ok |-> TRUE, log |-> done]
    ELSE IF Head(list) = NULL THEN [ok |-> FALSE, log |-> done]
    ELSE callEach(Tail(list), callback, Append(done, Event(callback, Head(list), "-")))

\* EngineState::onUpdate, lines 78-81
onUpdate ==
    /\ pc = "idle"
    /\ LET r == callEach(update_list_, "EngineSystem::onUpdate", log) IN
          /\ log' = r.log
          /\ pc' = IF r.ok THEN "ret" ELSE FAULT
          /\ call' = Call("onUpdate", "-", "-", "-")
    /\ UNCHANGED <<busVars, stackVars, staticVars, trigVars, passVars, passEnq,
                   clockVars, sysVars>>

\* EngineState::onRender, lines 83-86: the loop body calls sys->onUpdate
onRender ==
    /\ pc = "idle"
    /\ LET r == callEach(render_list_, "EngineSystem::onUpdate", log) IN
          /\ log' = r.log
          /\ pc' = IF r.ok THEN "ret" ELSE FAULT
          /\ call' = Call("onRender", "-", "-", "-")
    /\ UNCHANGED <<busVars, stackVars, staticVars, trigVars, passVars, passEnq,
                   clockVars, sysVars>>

\* ------------------------------------------------------------------- clock
\* the time source moves on between two calls of the caller; the time spent
\* paused since start() is kept for the claims
advance ==
    /\ pc = "idle"
    /\ now < MaxTime
    /\ now' = now + 1
    /\ pausedFor' = IF started /\ timer_.paused_ THEN pausedFor + 1 ELSE pausedFor
    /\ UNCHANGED <<pc, call, busVars, stackVars, staticVars, trigVars, passVars, log,
                   passEnq, timer_, paused_, current_timestamp_, deltaT_, started,
                   startedAt, sysVars>>

\* Engine::start, line 184
start ==
    /\ pc = "idle"
    /\ timer_' = startOn(timer_, now)
    /\ current_timestamp_' = 0
    /\ started' = TRUE
    /\ startedAt' = now
    /\ pausedFor' = 0
    /\ Returns("start", "-", "-", "-")
    /\ UNCHANGED <<busVars, stackVars, staticVars, trigVars, passVars, log, passEnq,
                   now, paused_, deltaT_, sysVars>>

\* Engine::pause, line 185
pause ==
    /\ pc = "idle"
    /\ paused_' = TRUE
    /\ timer_' = pauseOn(timer_, now)
    /\ Returns("pause", "-", "-", "-")
    /\ UNCHANGED <<busVars, stackVars, staticVars, trigVars, passVars, log, passEnq,
                   now, current_timestamp_, deltaT_, started, startedAt, pausedFor,
                   sysVars>>

\* Engine::unPause, line 186
unPause ==
    /\ pc = "idle"
    /\ paused_' = FALSE
    /\ timer_' = unpauseOn(timer_, now)
    /\ Returns("unPause", "-", "-", "-")
    /\ UNCHANGED <<busVars, stackVars, staticVars, trigVars, passVars, log, passEnq,
                   now, current_timestamp_, deltaT_, started, startedAt, pausedFor,
                   sysVars>>

\* ------------------------------------------------------------ specifications
BusCalls ==
    \/ \E l \in Listeners, t \in MsgTypes : addListener(l, t)
    \/ \E l \in Listeners, t \in MsgTypes : deleteListener(l, t)
    \/ \E l \in Listeners : addWildCardListener(l)
    \/ \E l \in Listeners : deleteWildCardListener(l)
    \/ \E m \in Msgs : queueMessage(m)
    \/ \E m \in Msgs : triggerMessage(m)

Callbacks ==
    \/ \E c \in BOOLEAN, send \in Msgs \cup {NULL} : onMessage(c, send)
    \/ triggerReturn
    \/ dispatchLoop

StackCalls ==
    \/ \E s \in States : pushState(s)
    \/ popState
    \/ \E s \in States : queueStateChange(s)

\* the message bus alone: no state is ever pushed
NextBus == BusCalls \/ Callbacks \/ tick \/ tickStates \/ clean \/ Return

\* the state stack alone: no listener is ever registered
NextStack == StackCalls \/ tick \/ tickStates \/ clean \/ Return

Next == BusCalls \/ Callbacks \/ StackCalls \/ tick \/ tickStates \/ clean \/ Return

ClockCalls == start \/ pause \/ unPause

\* the clock under the frame loop: no message is ever queued
NextTimer ==
    \/ advance
    \/ ClockCalls
    \/ \E s \in States : pushState(s)
    \/ tick
    \/ tickStates
    \/ Return

SpecTimer == Init /\ [][NextTimer]_vars

\* a frame with both halves: messages queued for the listeners of one type and
\* a pending state change
FrameTypes == {"T1"}

NextFrame ==
    \/ \E l \in Listeners, t \in FrameTypes : addListener(l, t)
    \/ \E m \in Msgs : queueMessage(m)
    \/ \E s \in States : queueStateChange(s)
    \/ Callbacks
    \/ tick
    \/ tickStates
    \/ Return

SpecFrame == Init /\ [][NextFrame]_vars

\* one state object and its subsystem lists
NextState ==
    \/ \E ptr \in Systems : pushBackUpdate(ptr)
    \/ \E ptr \in Systems : pushBackRender(ptr)
    \/ \E ptr \in Systems : deleteSystem(ptr)
    \/ onUpdate
    \/ onRender
    \/ Return

SpecState == Init /\ [][NextState]_vars

SpecBus == Init /\ [][NextBus]_vars
SpecStack == Init /\ [][NextStack]_vars
Spec == Init /\ [][Next]_vars

\* ============================================================== the claims
\* what the running call has observed
TickOver == pc = "ret" /\ call.op = "tick"
PassOver == TickOver \/ pc = FAULT
InPass   == pc = "dispatch" \/ (pc = "trigger" /\ caller = "dispatch") \/ PassOver

RECURSIVE MsgsOf(_)
MsgsOf(trace) ==
    IF trace = <<>> THEN <<>> ELSE <<Head(trace).m>> \o MsgsOf(Tail(trace))

Unconsumed == SelectSeq(passTrace, LAMBDA e : e.st = NOTCONSUMED)
InFlight == IF pc = "trigger" THEN <<msg>> ELSE <<>>
Accepting == message_queue_[current_msg_queue_]

IsPrefix(a, b) == Len(a) <= Len(b) /\ SubSeq(b, 1, Len(a)) = a

ListenerCalls == SelectSeq(log, LAMBDA e : e.ev = "onMessage")
OnMessageCount(l, m) == Count(log, Event("onMessage", l, m))

\* while the accepting buffer stays the same one, nothing leaves it
BufferKept ==
    current_msg_queue_' = current_msg_queue_
        => IsPrefix(message_queue_[current_msg_queue_], message_queue_'[current_msg_queue_])

\* ---------------------------------------------------------------------- C1
C1_PassInv ==
    InPass =>
        /\ MsgsOf(passTrace) \o InFlight \o message_queue_[queue_to_process] = snapshot
        /\ \A m \in Msgs : Count(Accepting, m) >= Count(passEnq, m)
        /\ PassOver => MsgsOf(passTrace) = snapshot

\* C1: a dispatch pass calls triggerMessage exactly once, in order, for each
\* message that was in the accepting buffer at the flip and for no other: the
\* buffer it drains never grows, whatever the listeners enqueue meanwhile.  What
\* they enqueue is in the accepting buffer when the pass ends, stays there, and
\* is what the next pass drains.
C1_SamePassNeverDelivers == []C1_PassInv /\ [][BufferKept]_vars

\* a pass has ended in which every listener call enqueued a message
C1_Witness ==
    /\ TickOver
    /\ snapshot # <<>>
    /\ Len(ListenerCalls) >= 2
    /\ Len(passEnq) = Len(ListenerCalls)
    /\ MsgsOf(passTrace) = snapshot

\* ---------------------------------------------------------------------- C2
C2_PassInv ==
    PassOver =>
        /\ MsgsOf(passTrace) = snapshot
        /\ message_queue_[queue_to_process] = <<>>
        /\ \A m \in Msgs :
              Count(Accepting, m) = Count(MsgsOf(Unconsumed), m) + Count(passEnq, m)
        /\ passEnq = <<>> => Accepting = MsgsOf(Unconsumed)

\* triggerMessage hands its result to dispatchMessages
C2_Step ==
    (pc = "trigger" /\ caller = "dispatch" /\ pc' = "dispatch") =>
        IF ~anyTrue /\ getType(msg) \in DOMAIN listener_map_
        THEN Accepting' = Append(Accepting, msg)
        ELSE Accepting' = Accepting

Registrations(l, m) ==
    Count(TypedListeners(listener_map_, m), l) + Count(wildcard_listener_list_, l)

C3_NoEarlyCall ==
    (pc = "ret" /\ call.op \notin {"tick", "triggerMessage"}) => ListenerCalls = <<>>

\* C3 as stated, read in its favour (m queued once, L still in T's list at the
\* tick): no call but tick and triggerMessage invokes a listener, and the tick
\* invokes L with m exactly once.
C3_Original ==
    /\ C3_NoEarlyCall
    /\ TickOver =>
          \A l \in Listeners, m \in Msgs :
              (Count(snapshot, m) = 1 /\ Contains(TypedListeners(listener_map_, m), l))
                  => OnMessageCount(l, m) = 1

C3_Inv ==
    /\ C3_NoEarlyCall
    /\ PassOver =>
          \A l \in Listeners, m \in Msgs :
              OnMessageCount(l, m) = Count(snapshot, m) * Registrations(l, m)

\* queueMessage returns SUCCESS: the message is the last of the accepting buffer
C3_Accepted ==
    (pc = "idle" /\ call'.op = "queueMessage" /\ call'.ret = SUCCESS) =>
        /\ log' = <<>>
        /\ Accepting' = Append(Accepting, call'.a)

\* the tick drains what the accepting buffer held
C3_Drained ==
    (pc = "idle" /\ pc' = "dispatch") =>
        /\ snapshot' = Accepting
        /\ message_queue_'[queue_to_process'] = Accepting

\* C3 (amended): queueMessage invokes no listener, and neither does any call
\* other than tick and triggerMessage; the accepted message waits in the
\* accepting buffer, and the next tick invokes L with it once for every copy of
\* it in that buffer and every list (T's, the wildcard list) that holds L then.
C3_Deferred == []C3_Inv /\ [][C3_Accepted /\ BufferKept /\ C3_Drained]_vars

\* a tick has delivered a message queued once to a listener of its type, once
C3_Witness ==
    /\ TickOver
    /\ \E l \in Listeners, m \in Msgs :
          /\ Count(snapshot, m) = 1
          /\ Registrations(l, m) = 1
          /\ Contains(TypedListeners(listener_map_, m), l)
          /\ OnMessageCount(l, m) = 1

\* ---------------------------------------------------------------------- C4
TriggerOver == pc = "ret" /\ call.op = "triggerMessage"
HasList(m) == getType(m) \in DOMAIN listener_map_

\* C4 as stated: NOLISTENER whenever the type has no list, whatever the
\* wildcard listeners return.
C4_Original ==
    TriggerOver =>
        call.ret = IF ~HasList(call.a) THEN NOLISTENER
                   ELSE IF anyTrue THEN CONSUMED ELSE NOTCONSUMED

\* C4 (amended): triggerMessage calls every listener of the type's list and
\* every wildcard listener; it returns CONSUMED when any of them returned true,
\* whether or not the type has a list; otherwise NOLISTENER when the type has
\* no list and NOTCONSUMED when it has one.
C4_Classification ==
    TriggerOver =>
        /\ call.ret = IF anyTrue THEN CONSUMED
                      ELSE IF HasList(call.a) THEN NOTCONSUMED ELSE NOLISTENER
        /\ Len(ListenerCalls) =
              Len(TypedListeners(listener_map_, call.a)) + Len(wildcard_listener_list_)

\* a wildcard listener consumed a message whose type has no list
C4_Witness ==
    /\ TriggerOver
    /\ ~HasList(call.a)
    /\ wildcard_listener_list_ # <<>>
    /\ anyTrue
    /\ call.ret = CONSUMED

\* ---------------------------------------------------------------------- C5
C5_Step ==
    (pc = "idle" /\ call'.op = "queueMessage") =>
        LET m == call'.a
            t == getType(m)
        IN IF t \notin DOMAIN listener_map_ \/ listener_map_[t] = <<>>
           THEN /\ call'.ret = NOLISTENER
                /\ message_queue_' = message_queue_
           ELSE /\ call'.ret = SUCCESS
                /\ message_queue_'[current_msg_queue_] = Append(Accepting, m)
                /\ message_queue_'[~current_msg_queue_] = message_queue_[~current_msg_queue_]
                /\ current_msg_queue_' = current_msg_queue_

\* C5: queueMessage returns NOLISTENER and changes no buffer when the type has
\* no listener list or an empty one, wildcard listeners or not; otherwise it
\* appends the message to the accepting buffer, leaves the other buffer alone
\* and returns SUCCESS.
C5_QueueEligibility == [][C5_Step]_vars

\* queueMessage refused a message whose type has an empty list, with a wildcard
\* listener registered
C5_Witness ==
    /\ pc = "ret" /\ call.op = "queueMessage"
    /\ call.ret = NOLISTENER
    /\ HasList(call.a) /\ listener_map_[getType(call.a)] = <<>>
    /\ wildcard_listener_list_ # <<>>

\* ---------------------------------------------------------------------- C6
UpdateRenderCalls == SelectSeq(log, LAMBDA e : e.ev \in {"onUpdate", "onRender"})
StateCalls == SelectSeq(log, LAMBDA e : e.ev # "onMessage")

\* C6 as stated, for the ticks whose static holds a state: a tick that leaves
\* the stack non-empty calls onUpdate and then onRender on the front of the
\* stack, and on no other state.
C6_Original ==
    (TickOver /\ state_ # <<>> /\ current_state # NULL) =>
        UpdateRenderCalls = << Event("onUpdate", getCurrentState, "-"),
                               Event("onRender", getCurrentState, "-") >>

\* ---------------------------------------------------------------------- C7
\* the tick ran on a fresh driver after pushState(a) and queueStateChange(b)
C7_Scenario(a, b) ==
    /\ PassOver
    /\ pre.stack = <<a>>
    /\ pre.queued = b
    /\ ~pre.init
    /\ pre.enter = [s \in States |-> IF s = a THEN 1 ELSE 0]
    /\ pre.exit = [s \in States |-> 0]

\* C7: on a fresh driver, pushState(A), queueStateChange(B) and one tick make
\* the calls exit(A), enter(B), B.onUpdate, B.onRender in that order within the
\* tick and no other state call, and getCurrentState() is B afterwards.
C7_TransitionScenario ==
    \A a, b \in States :
        (a # b /\ C7_Scenario(a, b)) =>
            /\ TickOver
            /\ StateCalls = << Event("exit", a, "-"), Event("enter", b, "-"),
                               Event("onUpdate", b, "-"), Event("onRender", b, "-") >>
            /\ getCurrentState = b
            /\ enterCount[a] = 1

\* the scenario has run to the end of its tick
C7_Witness == C7_Scenario("A", "B") /\ TickOver /\ Len(StateCalls) = 4

\* ---------------------------------------------------------------------- C8
\* C8 as stated: at no point has exit() been called on a state more often than
\* enter().
C8_Original == \A s \in States : exitCount[s] <= enterCount[s]

\* ---------------------------------------------------------------------- C9
\* C9 as stated, for the ticks that return: with an empty stack
\* getCurrentState() is empty, and a tick with nothing queued calls no onUpdate
\* and no onRender and leaves the stack empty.
C9_Original ==
    /\ state_ = <<>> => getCurrentState = NULL
    /\ (TickOver /\ pre.stack = <<>> /\ pre.queued = NULL) =>
          /\ UpdateRenderCalls = <<>>
          /\ state_ = <<>>

\* --------------------------------------------------------------------- C10
C10_NoDup ==
    /\ \A t \in DOMAIN listener_map_ : NoDup(listener_map_[t])
    /\ NoDup(wildcard_listener_list_)

C10_Step ==
    /\ (pc = "idle" /\ call'.op = "addListener") =>
          LET had == /\ call'.b \in DOMAIN listener_map_
                     /\ Contains(listener_map_[call'.b], call'.a)
          IN /\ call'.ret = Str(~had)
             /\ had => UNCHANGED <<listener_map_, wildcard_listener_list_>>
    /\ (pc = "idle" /\ call'.op = "addWildCardListener") =>
          LET had == Contains(wildcard_listener_list_, call'.a)
          IN /\ call'.ret = Str(~had)
             /\ had => UNCHANGED <<listener_map_, wildcard_listener_list_>>

\* C10: addListener(L, T) with L already in T's list, and addWildCardListener(L)
\* with L already in the wildcard list, return false and change no listener
\* list; no list ever holds a listener twice.
C10_NoDuplicateRegistration == []C10_NoDup /\ [][C10_Step]_vars

\* addListener has refused a listener its type's list holds already
C10_Witness ==
    /\ pc = "ret" /\ call.op = "addListener" /\ call.ret = "false"
    /\ Contains(listener_map_[call.b], call.a)

\* --------------------------------------------------------------------- C11
\* the onMessage calls that walking `list` with message m makes, in order
RECURSIVE CallsFor(_, _)
CallsFor(list, m) ==
    IF list = <<>> THEN <<>>
    ELSE <<Event("onMessage", Head(list), m)>> \o CallsFor(Tail(list), m)

\* T's list, then the wildcard list
WalkFor(m) ==
    (IF getType(m) \in DOMAIN listener_map_ THEN listener_map_[getType(m)] ELSE <<>>)
        \o wildcard_listener_list_

RECURSIVE CallsForAll(_)
CallsForAll(ms) ==
    IF ms = <<>> THEN <<>>
    ELSE CallsFor(WalkFor(Head(ms)), Head(ms)) \o CallsForAll(Tail(ms))

C11_Inv ==
    /\ TriggerOver => ListenerCalls = CallsFor(WalkFor(call.a), call.a)
    /\ PassOver => ListenerCalls = CallsForAll(snapshot)

\* a successful registration puts the listener at the end of its list
C11_Registered ==
    /\ (pc = "idle" /\ call'.op = "addListener" /\ call'.ret = "true") =>
          listener_map_'[call'.b] =
              Append(IF call'.b \in DOMAIN listener_map_
                     THEN listener_map_[call'.b] ELSE <<>>, call'.a)
    /\ (pc = "idle" /\ call'.op = "addWildCardListener" /\ call'.ret = "true") =>
          wildcard_listener_list_' = Append(wildcard_listener_list_, call'.a)

\* C11: triggerMessage(msg of type T) calls every listener of T's list in
\* registration order and then every wildcard listener in registration order,
\* each once, whatever the earlier ones returned; a registration appends, so
\* list order is registration order.
C11_DispatchOrder == []C11_Inv /\ [][C11_Registered]_vars

\* L1 and L2 registered for the type in that order, a wildcard listener, and a
\* listener that consumed: all three calls were made
C11_Witness ==
    /\ TriggerOver
    /\ anyTrue
    /\ HasList(call.a)
    /\ listener_map_[getType(call.a)] = <<"L1", "L2">>
    /\ Len(wildcard_listener_list_) = 1
    /\ Len(ListenerCalls) = 3

\* --------------------------------------------------------------------- C12
\* queueStateChange only fills the pending slot, with the state just given
C12_Step ==
    (pc = "idle" /\ call'.op = "queueStateChange") =>
        /\ queued_state_' = call'.a
        /\ state_' = state_
        /\ enterCount' = enterCount
        /\ exitCount' = exitCount

\* the tick applied the slot it found with one pushState and cleared it
C12_Inv ==
    PassOver =>
        /\ queued_state_ = NULL
        /\ IF pre.queued # NULL
           THEN /\ state_ = <<pre.queued>> \o pre.stack
                /\ enterCount = [pre.enter EXCEPT ![pre.queued] = @ + 1]
                /\ exitCount = IF pre.stack # <<>>
                               THEN [pre.exit EXCEPT ![Head(pre.stack)] = @ + 1]
                               ELSE pre.exit
                /\ SelectSeq(log, LAMBDA e : e.ev = "enter")
                       = <<Event("enter", pre.queued, "-")>>
           ELSE /\ state_ = pre.stack
                /\ enterCount = pre.enter
                /\ exitCount = pre.exit

\* C12: queueStateChange changes neither the stack nor any enter/exit count and
\* leaves the state last given in the pending slot; the next tick pushes that
\* state with one pushState (one enter, for it alone) and clears the slot; a
\* tick that finds the slot empty makes no transition.
C12_DeferredLastWriteWins == []C12_Inv /\ [][C12_Step]_vars

\* a tick applied a pending transition over a non-empty stack
C12_Witness ==
    /\ TickOver
    /\ pre.queued # NULL
    /\ pre.stack # <<>>
    /\ Head(state_) = pre.queued

\* --------------------------------------------------------------------- C13
\* C13 as stated, for the getTime() call that tick() makes: once start() has
\* been called, the time returned is the time elapsed since start() minus all
\* the time spent paused since then, whether or not the clock is paused.
C13_Original ==
    (TickOver /\ started) => current_timestamp_ = (now - startedAt) - pausedFor

\* --------------------------------------------------------------------- C14
\* C14 as stated, for the deltaT that tick() reads with getDeltaTime() and hands
\* to onUpdate: when the clock is paused (and some earlier tick has set the
\* delta) it is zero.
C14_Original ==
    (TickOver /\ started /\ timer_.paused_ /\ timer_.delta_time_ # Indeterminate) =>
        deltaT_ = 0

\* --------------------------------------------------------------------- C15
\* C15 as stated: when clean() returns, the state stack, the pending slot,
\* every listener list, the wildcard list and both message buffers are empty.
\* (The exit() calls on the states of the stack are the subject of C9.)
C15_Original ==
    (pc = "ret" /\ call.op = "clean") =>
        /\ state_ = <<>>
        /\ queued_state_ = NULL
        /\ listener_map_ = EmptyMap
        /\ wildcard_listener_list_ = <<>>
        /\ message_queue_[FALSE] = <<>>
        /\ message_queue_[TRUE] = <<>>

\* --------------------------------------------------------------------- C16
\* the phase of tick() a callback belongs to
Phase(e) ==
    CASE e.ev = "onMessage" -> 1
      [] e.ev \in {"exit", "enter"} -> 2
      [] e.ev = "onUpdate" -> 3
      [] e.ev = "onRender" -> 4

\* C16: the callbacks a tick() makes come in phase order: every listener call
\* of its dispatch pass, then the exit()/enter() of the pending transition,
\* then the state's onUpdate, then its onRender; so a message queued in an
\* earlier frame is delivered before enter() of the pending state.
C16_PhaseOrder ==
    InPass =>
        /\ \A i, j \in 1..Len(log) : i < j => Phase(log[i]) <= Phase(log[j])
        /\ ~PassOver => \A i \in 1..Len(log) : Phase(log[i]) = 1

\* a tick delivered a message queued earlier, then left one state and entered
\* the pending one, then updated and rendered
C16_Witness ==
    /\ TickOver
    /\ snapshot # <<>>
    /\ pre.queued # NULL
    /\ \E i, j, k, u, r \in 1..Len(log) :
          /\ i < j /\ j < k /\ k < u /\ u < r
          /\ log[i].ev = "onMessage"
          /\ log[j].ev = "exit"
          /\ log[k] = Event("enter", pre.queued, "-")
          /\ log[u].ev = "onUpdate"
          /\ log[r].ev = "onRender"

\* --------------------------------------------------------------------- C17
\* the calls of one callback on every entry of a list, in list order
RECURSIVE SystemCalls(_, _)
SystemCalls(list, callback) ==
    IF list = <<>> THEN <<>>
    ELSE <<Event(callback, Head(list), "-")>> \o SystemCalls(Tail(list), callback)

\* C17 as stated: State.onRender calls onRender, and nothing else, on every
\* entry of the render list in insertion order; State.onUpdate calls onUpdate
\* on every entry of the update list in insertion order.
C17_Original ==
    /\ (pc = "ret" /\ call.op = "onRender") =>
          log = SystemCalls(render_list_, "EngineSystem::onRender")
    /\ (pc = "ret" /\ call.op = "onUpdate") =>
          log = SystemCalls(update_list_, "EngineSystem::onUpdate")

\* --------------------------------------------------------------------- C18
\* C18 as stated: deleteSystem(subsystem) returns without a fault and leaves
\* each list as it was less every occurrence of the subsystem, so the other
\* entries keep their order and a list without the subsystem is unchanged.
C18_Step ==
    (pc = "idle" /\ call'.op = "deleteSystem") =>
        /\ pc' = "ret"
        /\ update_list_' = Remove(update_list_, call'.a)
        /\ render_list_' = Remove(render_list_, call'.a)

C18_Original == [][C18_Step]_vars

\* --------------------------------------------------------------------- C19
\* the copies of m in the two buffers
Buffered(m) == Count(message_queue_[FALSE], m) + Count(message_queue_[TRUE], m)

\* the messages the pass has let go: triggerMessage returned `st` for them
Gone(st) == MsgsOf(SelectSeq(passTrace, LAMBDA e : e.st = st))

C19_PassInv ==
    InPass =>
        /\ \A m \in Msgs :
              Buffered(m) + Count(InFlight, m)
                  + Count(Gone(CONSUMED), m) + Count(Gone(NOLISTENER), m)
                = Count(snapshot, m) + Count(passEnq, m)
        /\ \A i \in 1..Len(passTrace) :
              passTrace[i].st = NOLISTENER =>
                  getType(passTrace[i].m) \notin DOMAIN listener_map_

\* a buffered copy goes only when dispatchMessages takes it for triggerMessage,
\* and only clean() takes a type's list out of the map
C19_Step ==
    /\ ~(pc = "dispatch" /\ pc' = "trigger") =>
          \A m \in Msgs : Buffered(m)' >= Buffered(m)
    /\ (pc = "dispatch" /\ pc' = "trigger") =>
          \A m \in Msgs : Buffered(m)' + Count(<<msg'>>, m) = Buffered(m)
    /\ ~(pc = "idle" /\ call'.op = "clean") =>
          DOMAIN listener_map_ \subseteq DOMAIN listener_map_'

Draining == pc = "dispatch" \/ (pc = "trigger" /\ caller = "dispatch")

\* C20: whenever no pass is draining, the buffer the flag does not select is
\* empty, so every pending message is in the selected one; hence the clear()
\* of line 401, applied right after the flip to the buffer that accepts from
\* then on, has never discarded a message.
C20_OtherBufferEmpty ==
    /\ ~Draining => message_queue_[~current_msg_queue_] = <<>>
    /\ cleared = <<>>

\* a second pass starts on pending messages: the flip of the first pass made
\* the buffer it drained the one cleared now, and nothing was in it
C20_Witness ==
    /\ pc = "dispatch"
    /\ passTrace = <<>>
    /\ queue_to_process = TRUE
    /\ snapshot # <<>>
    /\ cleared = <<>>
    /\ message_queue_[current_msg_queue_] = <<>>

\* --------------------------------------------------------------------- C21
\* the type of m has an entry in the map whose list is empty
EmptyList(m) == HasList(m) /\ listener_map_[getType(m)] = <<>>

\* deleteListener takes the listener out of the type's list and nothing else:
\* every entry stays, and so does every queued message
C21_Delete ==
    (pc = "idle" /\ call'.op = "deleteListener") =>
        /\ DOMAIN listener_map_' = DOMAIN listener_map_
        /\ (call'.b \in DOMAIN listener_map_ =>
               ~Contains(listener_map_'[call'.b], call'.a))
        /\ message_queue_' = message_queue_

\* no call but clean() takes an entry out of the map
C21_EntryStays ==
    ~(pc = "idle" /\ call'.op = "clean") =>
        DOMAIN listener_map_ \subseteq DOMAIN listener_map_'

\* a pass presents a message whose type has an empty list: the result is never
\* NOLISTENER, and unless a wildcard listener consumed it the result is
\* NOTCONSUMED and the message goes back into the accepting buffer
C21_Requeue ==
    (pc = "trigger" /\ caller = "dispatch" /\ pc' = "dispatch" /\ EmptyList(msg)) =>
        /\ passTrace'[Len(passTrace')].m = msg
        /\ passTrace'[Len(passTrace')].st # NOLISTENER
        /\ ~anyTrue =>
              /\ passTrace'[Len(passTrace')].st = NOTCONSUMED
              /\ Accepting' = Append(Accepting, msg)

\* while the list is empty a new queueMessage for the type is refused
C21_Refused ==
    (pc = "idle" /\ call'.op = "queueMessage" /\ EmptyList(call'.a)) =>
        /\ call'.ret = NOLISTENER
        /\ message_queue_' = message_queue_

\* with an empty list and no wildcard listener, a pass ends with as many copies
\* of the message queued as it found
C21_Inv ==
    PassOver =>
        \A m \in Msgs :
            (EmptyList(m) /\ wildcard_listener_list_ = <<>>) =>
                /\ Count(Accepting, m) = Count(snapshot, m)
                /\ \A i \in 1..Len(passTrace) :
                      passTrace[i].m = m => passTrace[i].st = NOTCONSUMED

====
